---------------------------- MODULE Spec2Model ----------------------------
(***************************************************************************)
(* State-vector model of the circuits of the Quantum-Computing labs and of *)
(* the CVE Grover search project (src/Project Code/Project.py).            *)
(*                                                                         *)
(* Amplitudes.  Every gate used by the modelled circuits (X, H, Z, CX,     *)
(* MCX) maps a vector of the form a / sqrt(2)^e, a an integer vector, to a *)
(* vector of the same form, so a state vector is the pair (a, e) and all   *)
(* arithmetic is exact.  (a, e) is kept in lowest terms: while every entry *)
(* of a is even and e >= 2, a is halved and e lowered by 2; two pairs in   *)
(* lowest terms denote the same vector iff they are equal.                 *)
(*                                                                         *)
(* Qubit i is bit i of the basis index (qiskit's little-endian order); a   *)
(* result key lists the classical bits most-significant first.             *)
(* Bitstrings are sequences over {0, 1}: "1011" is <<1, 0, 1, 1>>.         *)
(***************************************************************************)
EXTENDS Integers, Sequences, FiniteSets, TLC

\* ------------------------------------------------------------- bounds
\* Largest iteration count passed to run_grover_manual.
MaxIterations == 6
\* Largest database_size passed to run_classical_search.
MaxDatabaseSize == 17
\* Largest rotation angle of a Lab5 circuit, in units of pi/6.
MaxAngle == 11
\* Largest adjustment of the system clock during a call, in milliseconds.
MaxClockJump == 20

\* ------------------------------------------------ program constants
\* CVEQuantumSearch.__init__: num_qubits=4.
DefaultNumQubits == 4
\* simulator.run(..., shots=1024).
Shots == 1024
\* run_classical_search: database_size=16.
DefaultDatabaseSize == 16

\* ---------------------------------------------------- wide naturals
\* TLC integers are 32 bits wide; squared amplitudes are not.  A wide
\* natural is hi * 2^30 + lo with 0 <= lo < 2^30.
B30 == 2 ^ 30
B15 == 2 ^ 15

WOf(n) == [hi |-> n \div B30, lo |-> n % B30]

WAdd(x, y) ==
  LET s == x.lo + y.lo
  IN  [hi |-> x.hi + y.hi + (s \div B30), lo |-> s % B30]

\* a * b for 0 <= a, b < 2^30, by 15-bit halves.
WMul(a, b) ==
  LET a1 == a \div B15   a0 == a % B15
      b1 == b \div B15   b0 == b % B15
      mid == a1 * b0 + a0 * b1
      low == a0 * b0 + (mid % B15) * B15
  IN  [hi |-> a1 * b1 + (mid \div B15) + (low \div B30), lo |-> low % B30]

Abs(x) == IF x < 0 THEN -x ELSE x

WSq(a) == WMul(Abs(a), Abs(a))

\* x * 2^j for j < 60: the top j bits of lo move into hi
WShl(x, j) ==
  LET y   == IF j < 30 THEN x ELSE [hi |-> x.lo, lo |-> 0]
      k   == IF j < 30 THEN j ELSE j - 30
      cut == 2 ^ (30 - k)
  IN  [hi |-> y.hi * (2 ^ k) + (y.lo \div cut), lo |-> (y.lo % cut) * (2 ^ k)]

\* floor(x / 2^j) for j < 60
WShr(x, j) ==
  IF j < 30
  THEN [hi |-> x.hi \div (2 ^ j),
        lo |-> (x.hi % (2 ^ j)) * (2 ^ (30 - j)) + (x.lo \div (2 ^ j))]
  ELSE [hi |-> 0, lo |-> x.hi \div (2 ^ (j - 30))]

\* x * c for a natural c < 2^15, by 15-bit halves of lo
WTimes(x, c) ==
  LET l1 == x.lo \div B15
      l0 == x.lo % B15
      m  == l1 * c
  IN  WAdd([hi |-> x.hi * c + (m \div B15), lo |-> (m % B15) * B15],
           WOf(l0 * c))

WLess(x, y) == x.hi < y.hi \/ (x.hi = y.hi /\ x.lo < y.lo)

\* A probability is num / 2^e, num a wide natural.
ProbLess(p, q) ==
  IF p.e <= q.e THEN WLess(WShl(p.num, q.e - p.e), q.num)
                ELSE WLess(p.num, WShl(q.num, p.e - q.e))

ProbEq(p, q) ==
  IF p.e <= q.e THEN WShl(p.num, q.e - p.e) = q.num
                ELSE p.num = WShl(q.num, p.e - q.e)

\* the probability c / 2^j
Dyadic(c, j) == [num |-> WOf(c), e |-> j]

\* --------------------------------------------------------- state vector
Bit(i, q) == (i \div (2 ^ q)) % 2

Flip(i, q) == IF Bit(i, q) = 1 THEN i - 2 ^ q ELSE i + 2 ^ q

\* |0...0> on n qubits
ZeroState(n) == [a |-> [i \in 0 .. (2 ^ n - 1) |-> IF i = 0 THEN 1 ELSE 0], e |-> 0]

RECURSIVE Reduce(_)
\* (a, e) in lowest terms
Reduce(sv) ==
  IF sv.e >= 2 /\ \A i \in DOMAIN sv.a : sv.a[i] % 2 = 0
  THEN Reduce([a |-> [i \in DOMAIN sv.a |-> sv.a[i] \div 2], e |-> sv.e - 2])
  ELSE sv

\* PauliX on qubit q: swap the amplitudes of the indices differing in bit q.
GateX(sv, q) == [a |-> [i \in DOMAIN sv.a |-> sv.a[Flip(i, q)]], e |-> sv.e]

\* Mutant of GateH: the minus sign on the wrong row,
\* (a0, a1) -> ((a0 + a1)/sqrt 2, (a1 - a0)/sqrt 2).
GateH_sign_on_wrong_row(sv, q) ==
  Reduce([a |-> [i \in DOMAIN sv.a |->
                   IF Bit(i, q) = 0 THEN sv.a[i] + sv.a[Flip(i, q)]
                                    ELSE sv.a[i] - sv.a[Flip(i, q)]],
          e |-> sv.e + 1])

\* Mutant of GateH: the factor 1/sqrt 2 is left out,
\* (a0, a1) -> (a0 + a1, a0 - a1).
GateH_unnormalised(sv, q) ==
  Reduce([a |-> [i \in DOMAIN sv.a |->
                   IF Bit(i, q) = 0 THEN sv.a[i] + sv.a[Flip(i, q)]
                                    ELSE sv.a[Flip(i, q)] - sv.a[i]],
          e |-> sv.e])

\* Hadamard on qubit q: (a0, a1) -> ((a0 + a1)/sqrt 2, (a0 - a1)/sqrt 2).
GateH(sv, q) ==
  Reduce([a |-> [i \in DOMAIN sv.a |->
                   IF Bit(i, q) = 0 THEN sv.a[i] + sv.a[Flip(i, q)]
                                    ELSE sv.a[Flip(i, q)] - sv.a[i]],
          e |-> sv.e + 1])

\* PauliZ on qubit q: negate the amplitudes of the indices with bit q set.
GateZ(sv, q) ==
  [a |-> [i \in DOMAIN sv.a |-> IF Bit(i, q) = 1 THEN -sv.a[i] ELSE sv.a[i]],
   e |-> sv.e]

\* MultiControlledX: flip bit t where every control bit is 1.
GateMCX(sv, ctrl, t) ==
  [a |-> [i \in DOMAIN sv.a |->
            IF \A c \in ctrl : Bit(i, c) = 1 THEN sv.a[Flip(i, t)] ELSE sv.a[i]],
   e |-> sv.e]

\* An instruction of a circuit: gate name, control qubits, target qubit.
Instr(g, ctrl, t) == [g |-> g, c |-> ctrl, t |-> t]

\* The instruction op applied to sv.  (f @@ << >> is f, tabulated: the
\* amplitudes are computed once per instruction.)
ApplyGate(sv, op) ==
  LET out == CASE op.g = "x"       -> GateX(sv, op.t)
               [] op.g = "h"       -> GateH(sv, op.t)
               [] op.g = "z"       -> GateZ(sv, op.t)
               [] op.g = "cx"      -> GateMCX(sv, op.c, op.t)
               [] op.g = "mcx"     -> GateMCX(sv, op.c, op.t)
               [] op.g = "barrier" -> sv
  IN  [a |-> out.a @@ << >>, e |-> out.e]

RECURSIVE Simulate(_, _)
\* the state vector after the instructions of ops, in order
\* (First half, then second half, the state in between computed before
\* going on: the evaluation depth stays logarithmic in Len(ops).)
Simulate(sv, ops) ==
  IF Len(ops) = 0 THEN sv
  ELSE IF Len(ops) = 1 THEN ApplyGate(sv, ops[1])
  ELSE LET half == Len(ops) \div 2
           mid  == Simulate(sv, SubSeq(ops, 1, half))
       IN  IF mid.e >= 0 THEN Simulate(mid, SubSeq(ops, half + 1, Len(ops)))
           ELSE mid

\* ------------------------------------------------------------ bitstrings
\* All bitstrings of length m.
BitStrings(m) == [1 .. m -> {0, 1}]

\* str.zfill(width): pad with '0' on the left up to width; longer strings
\* are returned unchanged.
zfill(s, width) ==
  IF Len(s) >= width THEN s ELSE [i \in 1 .. (width - Len(s)) |-> 0] \o s

\* ---------------------------------------------------- measurement
\* A measurement map cmap sends classical bit j - 1 to qubit cmap[j].  The
\* key of basis index i lists classical bit m - 1 first, bit 0 last.
KeyOf(i, cmap) ==
  [pos \in 1 .. Len(cmap) |-> Bit(i, cmap[Len(cmap) - pos + 1])]

RECURSIVE KeySum(_, _, _, _, _)
\* sum of a[i]^2 over the basis indices i in lo .. hi whose key is key
\* (by halves, which keeps the evaluation depth logarithmic)
KeySum(sv, cmap, key, lo, hi) ==
  IF lo > hi THEN WOf(0)
  ELSE IF lo = hi
       THEN (IF KeyOf(lo, cmap) = key THEN WSq(sv.a[lo]) ELSE WOf(0))
  ELSE LET mid == (lo + hi) \div 2
       IN  WAdd(KeySum(sv, cmap, key, lo, mid),
                KeySum(sv, cmap, key, mid + 1, hi))

\* The outcome distribution of measuring the qubits of cmap: the marginal
\* probability of every key, each with denominator 2^e.
ProbOf(sv, cmap, key) ==
  [num |-> KeySum(sv, cmap, key, 0, Cardinality(DOMAIN sv.a) - 1), e |-> sv.e]

Probabilities(sv, cmap) ==
  [key \in BitStrings(Len(cmap)) |-> ProbOf(sv, cmap, key)]

\* ------------------------------------------- CVEQuantumSearch circuits
RECURSIVE XWhereZero_on_ones(_, _)
\* Mutant of XWhereZero: the X gates go where the bit is 1.
XWhereZero_on_ones(pattern, idx) ==
  IF idx >= Len(pattern) THEN << >>
  ELSE (IF pattern[idx + 1] = 1 THEN <<Instr("x", {}, idx)>> ELSE << >>)
       \o XWhereZero_on_ones(pattern, idx + 1)

RECURSIVE XWhereZero(_, _)
\* for idx, bit in enumerate(pattern): if bit == 0: qc.x(q[idx])
\* (idx counted from 0; covers the entries from position idx + 1 on)
XWhereZero(pattern, idx) ==
  IF idx >= Len(pattern) THEN << >>
  ELSE (IF pattern[idx + 1] = 0 THEN <<Instr("x", {}, idx)>> ELSE << >>)
       \o XWhereZero(pattern, idx + 1)

\* Mutant of create_oracle: the X gates are not re-applied after the mcx.
create_oracle_without_undo(target_pattern, k) ==
  LET pattern == zfill(target_pattern, k)
  IN  [raised |-> \E idx \in 0 .. (Len(pattern) - 1) :
                     pattern[idx + 1] = 0 /\ idx >= k,
       ops    |-> XWhereZero(pattern, 0)
                  \o <<Instr("mcx", 0 .. (k - 1), k)>>]

\* create_oracle: ops is the circuit on q[0..k-1] and anc = qubit k;
\* raised tells that q[idx] was indexed with idx >= k (IndexError).
create_oracle(target_pattern, k) ==
  LET pattern == zfill(target_pattern, k)
  IN  [raised |-> \E idx \in 0 .. (Len(pattern) - 1) :
                     pattern[idx + 1] = 0 /\ idx >= k,
       ops    |-> XWhereZero(pattern, 0)
                  \o <<Instr("mcx", 0 .. (k - 1), k)>>
                  \o XWhereZero(pattern, 0)]

\* qc.h(q) / qc.x(q): the gate on every qubit of the register q, in order.
OnRegister(g, k) == [i \in 1 .. k |-> Instr(g, {}, i - 1)]

\* Mutant of Diffuser: the X layers around the controlled flip are left out
\* (a reflection about |0...0> in the Hadamard basis becomes one about
\* |1...1>).
Diffuser_without_x_layers(k) ==
  OnRegister("h", k)
  \o <<Instr("h", {}, k - 1),
       Instr("mcx", 0 .. (k - 2), k - 1),
       Instr("h", {}, k - 1)>>
  \o OnRegister("h", k)

\* Mutant of Diffuser: the two h(q[-1]) around the mcx are left out (a
\* controlled bit flip instead of a controlled phase flip).
Diffuser_without_h_sandwich(k) ==
  OnRegister("h", k) \o OnRegister("x", k)
  \o <<Instr("mcx", 0 .. (k - 2), k - 1)>>
  \o OnRegister("x", k) \o OnRegister("h", k)

\* Lines 89-95: the diffuser of one iteration.
Diffuser(k) ==
  OnRegister("h", k) \o OnRegister("x", k)
  \o <<Instr("h", {}, k - 1),
       Instr("mcx", 0 .. (k - 2), k - 1),
       Instr("h", {}, k - 1)>>
  \o OnRegister("x", k) \o OnRegister("h", k)

\* Mutant of Preparation: qc.h(q) is left out.
Preparation_without_superposition(k) ==
  <<Instr("x", {}, k), Instr("h", {}, k)>>

\* Lines 83-85: ancilla to |->, search qubits to uniform superposition.
Preparation(k) ==
  <<Instr("x", {}, k), Instr("h", {}, k)>> \o OnRegister("h", k)

RECURSIVE Repeat(_, _)
Repeat(ops, n) == IF n = 0 THEN << >> ELSE ops \o Repeat(ops, n - 1)

\* The circuit run_grover_manual builds, and whether building it raised.
\* create_oracle is only called inside the loop.
GroverCircuit(target_pattern, its, k) ==
  LET oracle == create_oracle(target_pattern, k)
  IN  [raised |-> its > 0 /\ oracle.raised,
       ops    |-> Preparation(k) \o Repeat(oracle.ops \o Diffuser(k), its)]

\* Mutant of OptimalIterations: the count is rounded down,
\* 16 t^2 <= pi^2 * 2^k < 16 (t + 1)^2.
OptimalIterations_rounded_down(k) ==
  CHOOSE t \in 0 .. (2 ^ k) :
    /\ 16 * t * t * 10000 < 98697 * (2 ^ k)
    /\ 98696 * (2 ^ k) < 16 * (t + 1) * (t + 1) * 10000

\* run_search: iterations = int(np.round(np.pi/4 * np.sqrt(2**k))), the
\* integer t with |pi/4 * sqrt(2^k) - t| < 1/2, i.e.
\* 4 (2t - 1)^2 < pi^2 * 2^k < 4 (2t + 1)^2, with 9.8696 < pi^2 < 9.8697.
OptimalIterations(k) ==
  CHOOSE t \in 0 .. (2 ^ k) :
    /\ t = 0 \/ 4 * (2 * t - 1) * (2 * t - 1) * 10000 < 98697 * (2 ^ k)
    /\ 98696 * (2 ^ k) < 4 * (2 * t + 1) * (2 * t + 1) * 10000

\* Mutant of MeasureRegister: the ancilla is measured too.
MeasureRegister_with_ancilla(k) == [j \in 1 .. (k + 1) |-> j - 1]

\* qc.measure(q, c): q[i] -> c[i]
MeasureRegister(k) == [j \in 1 .. k |-> j - 1]

\* --------------------------------------------------------- lab circuits
\* Mutant of bell_state_phi_plus: control and target of the cx swapped.
bell_state_phi_plus_cx_reversed == <<Instr("h", {}, 0), Instr("cx", {1}, 0)>>

\* Mutant of bell_state_psi_plus: the x on qubit 0 instead of qubit 1.
bell_state_psi_plus_x_on_qubit_0 ==
  <<Instr("x", {}, 0), Instr("h", {}, 0), Instr("cx", {0}, 1)>>

\* LAB_6.py
bell_state_phi_plus == <<Instr("h", {}, 0), Instr("cx", {0}, 1)>>

bell_state_psi_plus ==
  <<Instr("x", {}, 1), Instr("h", {}, 0), Instr("cx", {0}, 1)>>

bell_state_phi_minus ==
  <<Instr("h", {}, 0), Instr("cx", {0}, 1), Instr("z", {}, 1)>>

\* Lab3.py
qc0 == <<Instr("h", {}, 0), Instr("h", {}, 0)>>

qc1 == <<Instr("x", {}, 0), Instr("h", {}, 0), Instr("h", {}, 0)>>

\* lab7.py, lines 7-52: Alice's preparation, the barrier, Bob's basis changes
bb84_protocol_no_eve ==
  <<Instr("x", {}, 1),
    Instr("h", {}, 3),
    Instr("h", {}, 4), Instr("z", {}, 4),
    Instr("h", {}, 5), Instr("z", {}, 5),
    Instr("barrier", {}, 0),
    Instr("h", {}, 2), Instr("h", {}, 3), Instr("h", {}, 4), Instr("h", {}, 5)>>

\* lab7.py, lines 54-121: the same with Eve's basis changes in between
bb84_protocol_with_eve ==
  <<Instr("x", {}, 1),
    Instr("h", {}, 3),
    Instr("h", {}, 4), Instr("z", {}, 4),
    Instr("h", {}, 5), Instr("z", {}, 5),
    Instr("barrier", {}, 0),
    Instr("h", {}, 0), Instr("h", {}, 2), Instr("h", {}, 3),
    Instr("h", {}, 4), Instr("h", {}, 5),
    Instr("h", {}, 0), Instr("h", {}, 2), Instr("h", {}, 4),
    Instr("barrier", {}, 0),
    Instr("h", {}, 2), Instr("h", {}, 3), Instr("h", {}, 5)>>

\* qc.measure(range(6), range(6))
MeasureAll(n) == [j \in 1 .. n |-> j - 1]

\* The lab circuits by name: instructions, qubit count, measurement map.
LabCircuits ==
  [bell_state_phi_plus  |-> [ops |-> bell_state_phi_plus,  n |-> 2, cmap |-> <<0, 1>>],
   bell_state_psi_plus  |-> [ops |-> bell_state_psi_plus,  n |-> 2, cmap |-> <<0, 1>>],
   bell_state_phi_minus |-> [ops |-> bell_state_phi_minus, n |-> 2, cmap |-> <<0, 1>>],
   qc0                  |-> [ops |-> qc0, n |-> 1, cmap |-> <<0>>],
   qc1                  |-> [ops |-> qc1, n |-> 1, cmap |-> <<0>>],
   bb84_protocol_no_eve |->
     [ops |-> bb84_protocol_no_eve, n |-> 6, cmap |-> MeasureAll(6)],
   bb84_protocol_with_eve |->
     [ops |-> bb84_protocol_with_eve, n |-> 6, cmap |-> MeasureAll(6)]]

\* ------------------------------------------------ sampled counts
\* job.result().get_counts(): how often each key was drawn in Shots shots;
\* keys never drawn are absent.

\* the bitstring of length m whose value is i
BitStringOf(i, m) == [pos \in 1 .. m |-> Bit(i, m - pos)]

RECURSIVE SumOver(_, _, _, _)
\* sum of f over the bitstrings of length m with value in lo .. hi that f
\* has as keys (by halves, as KeySum)
SumOver(f, m, lo, hi) ==
  IF lo > hi THEN 0
  ELSE IF lo = hi
       THEN (IF BitStringOf(lo, m) \in DOMAIN f THEN f[BitStringOf(lo, m)] ELSE 0)
  ELSE LET mid == (lo + hi) \div 2
       IN  SumOver(f, m, lo, mid) + SumOver(f, m, mid + 1, hi)

\* sum(counts.values()), the keys being bitstrings of one length
Total(f) ==
  IF DOMAIN f = {} THEN 0
  ELSE LET m == Len(CHOOSE key \in DOMAIN f : TRUE)
       IN  SumOver(f, m, 0, 2 ^ m - 1)

\* floor(Shots * p)
ExpectedCount(p) ==
  LET scaled == WTimes(p.num, Shots)
  IN  WShr(scaled, p.e).lo

\* a most probable key of dist
Mode(dist) ==
  CHOOSE key \in DOMAIN dist :
    \A other \in DOMAIN dist : ~ ProbLess(dist[key], dist[other])

Drawn(f) == [key \in {x \in DOMAIN f : f[x] > 0} |-> f[key]]

\* Two of the samples the simulator can return for dist: every key at its
\* expected count (rounded down, the shots left over on a most probable
\* key), and every shot on a most probable key.
Samples(dist) ==
  LET floors == [key \in DOMAIN dist |-> ExpectedCount(dist[key])]
      rest   == Shots - Total(floors)
      top    == Mode(dist)
  IN  { Drawn([floors EXCEPT ![top] = @ + rest]),
        Drawn([key \in DOMAIN dist |-> IF key = top THEN Shots ELSE 0]) }

\* ------------------------------------------------ complex amplitudes
\* Lab5.py rotates by multiples of pi/6, so its amplitudes are integer
\* combinations of powers of zeta = exp(i pi/12), over sqrt(2)^e.  Such a
\* number is the tuple of its 8 coordinates on 1, zeta, ..., zeta^7
\* (zeta^8 = zeta^4 - 1, zeta^12 = -1); the coordinates are unique.
CZero == <<0, 0, 0, 0, 0, 0, 0, 0>>

COne == <<1, 0, 0, 0, 0, 0, 0, 0>>

CAdd(x, y) == [j \in 1 .. 8 |-> x[j] + y[j]]

CSub(x, y) == [j \in 1 .. 8 |-> x[j] - y[j]]

CScale(c, x) == [j \in 1 .. 8 |-> c * x[j]]

\* x * zeta^n: the coordinates on 1 .. zeta^11 are shifted by n with a sign
\* change at every wrap (zeta^12 = -1), then zeta^8 .. zeta^11 are folded
\* back (zeta^(8+j) = zeta^(4+j) - zeta^j).
CTimesZeta(x, n) ==
  LET r == ((n % 24) + 24) % 24
      d == [i \in 0 .. 11 |-> IF i < 8 THEN x[i + 1] ELSE 0]
      s == [j \in 0 .. 11 |->
              LET i == (((j - r) % 12) + 12) % 12
              IN  IF ((i + r - j) \div 12) % 2 = 0 THEN d[i] ELSE -d[i]]
  IN  [j \in 1 .. 8 |-> IF j <= 4 THEN s[j - 1] - s[j + 7]
                                  ELSE s[j - 1] + s[j + 3]]

\* x * y
CMul(x, y) ==
  LET term == [i \in 0 .. 7 |-> CScale(x[i + 1], CTimesZeta(y, i))]
  IN  CAdd(CAdd(CAdd(term[0], term[1]), CAdd(term[2], term[3])),
           CAdd(CAdd(term[4], term[5]), CAdd(term[6], term[7])))

\* the complex conjugate: zeta^j -> zeta^(-j)
CConj(x) ==
  LET term == [i \in 0 .. 7 |-> CScale(x[i + 1], CTimesZeta(COne, -i))]
  IN  CAdd(CAdd(CAdd(term[0], term[1]), CAdd(term[2], term[3])),
           CAdd(CAdd(term[4], term[5]), CAdd(term[6], term[7])))

\* |x|^2
CNormSq(x) == CMul(x, CConj(x))

\* |0...0> on n qubits, complex
CZeroState(n) ==
  [a |-> [i \in 0 .. (2 ^ n - 1) |-> IF i = 0 THEN COne ELSE CZero], e |-> 0]

RECURSIVE CReduce(_)
\* a common factor 2 of all coordinates is moved into the denominator
CReduce(v) ==
  IF v.e >= 2 /\ \A i \in DOMAIN v.a : \A j \in 1 .. 8 : v.a[i][j] % 2 = 0
  THEN CReduce([a |-> [i \in DOMAIN v.a |->
                         [j \in 1 .. 8 |-> v.a[i][j] \div 2]],
                e |-> v.e - 2])
  ELSE v

\* Hadamard on qubit q of a complex state vector
CGateH(v, q) ==
  CReduce([a |-> [i \in DOMAIN v.a |->
                    IF Bit(i, q) = 0 THEN CAdd(v.a[i], v.a[Flip(i, q)])
                                     ELSE CSub(v.a[Flip(i, q)], v.a[i])],
           e |-> v.e + 1])

\* Mutant of GateRZ: the angle is first reduced into [0, 2 pi), although
\* RotationZ has period 4 pi.
GateRZ_angle_reduced(v, m, q) ==
  [a |-> [i \in DOMAIN v.a |->
            IF Bit(i, q) = 0 THEN CTimesZeta(v.a[i], -(m % 12))
                             ELSE CTimesZeta(v.a[i], m % 12)],
   e |-> v.e]

\* qc.rz(theta, q) with theta = m * pi/6: diag(exp(-i theta/2),
\* exp(+i theta/2)) on qubit q, i.e. zeta^(-m) where bit q is 0 and
\* zeta^m where it is 1.
GateRZ(v, m, q) ==
  [a |-> [i \in DOMAIN v.a |->
            IF Bit(i, q) = 0 THEN CTimesZeta(v.a[i], -m)
                             ELSE CTimesZeta(v.a[i], m)],
   e |-> v.e]

\* The instruction rz(m * pi/6) on qubit t.
RzInstr(m, t) == [g |-> "rz", c |-> {}, t |-> t, theta |-> m]

\* one instruction of a Lab5 circuit applied to v
CApplyGate(v, op) ==
  LET out == CASE op.g = "h"  -> CGateH(v, op.t)
               [] op.g = "rz" -> GateRZ(v, op.theta, op.t)
  IN  [a |-> out.a @@ << >>, e |-> out.e]

\* Lab5.py, lines 7-24, for the angles theta1 = m1 * pi/6 and
\* theta2 = m2 * pi/6; the script has m1 = 3, m2 = 2.
multiple_rz_gates(m1, m2) ==
  <<Instr("h", {}, 0), RzInstr(m1, 0), RzInstr(m2, 0), Instr("h", {}, 0)>>

\* qc.measure(0, 0) on QuantumCircuit(2, 2): classical bit 0 holds qubit 0,
\* classical bit 1 is never written (-1) and reads 0.
MeasureQubit0 == <<0, -1>>

\* The key of basis index i under a map that may leave classical bits
\* unwritten.
CKeyOf(i, m) ==
  [pos \in 1 .. Len(m) |->
     IF m[Len(m) - pos + 1] < 0 THEN 0 ELSE Bit(i, m[Len(m) - pos + 1])]

RECURSIVE CKeySum(_, _, _, _, _)
\* sum of |a[i]|^2 over the basis indices i in lo .. hi whose key is key
CKeySum(v, m, key, lo, hi) ==
  IF lo > hi THEN CZero
  ELSE IF lo = hi
       THEN (IF CKeyOf(lo, m) = key THEN CNormSq(v.a[lo]) ELSE CZero)
  ELSE LET mid == (lo + hi) \div 2
       IN  CAdd(CKeySum(v, m, key, lo, mid), CKeySum(v, m, key, mid + 1, hi))

\* The outcome distribution of a complex state vector: the probability of
\* key is num / 2^e, num a real number given by its coordinates.
CProbabilities(v, m) ==
  [key \in BitStrings(Len(m)) |->
     [num |-> CKeySum(v, m, key, 0, Cardinality(DOMAIN v.a) - 1), e |-> v.e]]

\* sqrt 3 = zeta^2 + zeta^(-2) = 2 zeta^2 - zeta^6.  With angles that are
\* multiples of pi/6 every probability of a Lab5 circuit is
\* (u + v sqrt 3) / 2^e for integers u, v.
SurdOf(x) == [u |-> x[1], v |-> -x[7]]

\* X <= Y * sqrt 3, for integers X, Y
SurdLe(X, Y) ==
  IF X <= 0 THEN Y >= 0 \/ X * X >= 3 * Y * Y
            ELSE Y > 0 /\ X * X <= 3 * Y * Y

\* p < q for two probabilities with the same denominator
CProbLess(p, q) ==
  ~ SurdLe(SurdOf(q.num).u - SurdOf(p.num).u, SurdOf(p.num).v - SurdOf(q.num).v)

\* floor(Shots * p)
CExpectedCount(p) ==
  LET u == SurdOf(p.num).u
      v == SurdOf(p.num).v
  IN  CHOOSE n \in 0 .. Shots :
        /\ SurdLe(n * (2 ^ p.e) - Shots * u, Shots * v)
        /\ ~ SurdLe((n + 1) * (2 ^ p.e) - Shots * u, Shots * v)

\* two of the samples the simulator can return, as Samples
CSamples(dist) ==
  LET floors == [key \in DOMAIN dist |-> CExpectedCount(dist[key])]
      rest   == Shots - Total(floors)
      top    == CHOOSE key \in DOMAIN dist :
                  \A other \in DOMAIN dist : ~ CProbLess(dist[key], dist[other])
  IN  { Drawn([floors EXCEPT ![top] = @ + rest]),
        Drawn([key \in DOMAIN dist |-> IF key = top THEN Shots ELSE 0]) }

\* ------------------------------------------------ create_feature_vector
\* A description is the set of the keywords it contains (lower-cased), an
\* attack vector whether it contains 'remote', a privilege whether it
\* equals 'low'.
create_feature_vector(description, attack_vector, privilege_required) ==
  (IF "buffer" \in description THEN <<0, 0>>
   ELSE IF "sql" \in description THEN <<0, 1>>
   ELSE IF "xss" \in description THEN <<1, 0>>
   ELSE <<1, 1>>)
  \o (IF attack_vector = "remote" THEN <<0>> ELSE <<1>>)
  \o (IF privilege_required = "low" THEN <<0>> ELSE <<1>>)

\* ------------------------------------------------ run_classical_search
RECURSIVE BinaryDigits(_)
\* the binary digits of i, most significant first
BinaryDigits(i) ==
  IF i < 2 THEN <<i>> ELSE BinaryDigits(i \div 2) \o <<i % 2>>

\* format(i, f'0{width}b')
FormatBinary(i, width) == zfill(BinaryDigits(i), width)

\* Lines 115-119: the mock database
MockDb(database_size, k) ==
  [i \in 1 .. database_size |-> FormatBinary(i - 1, k)]

\* Lines 130-133: one more visit of entry
Visit(m, entry) ==
  IF entry \in DOMAIN m THEN [m EXCEPT ![entry] = @ + 1]
  ELSE m @@ (entry :> 1)

\* Lines 143-146: the target made to stand out
Highlight(m, tp) ==
  IF tp \in DOMAIN m THEN [m EXCEPT ![tp] = @ * 4]
  ELSE m @@ (tp :> 4)

\* ------------------------------------------------ run_search, lines 558-565
Max(S) == CHOOSE x \in S : \A y \in S : y <= x

ForcedCounts(quantum_counts, fv) ==
  LET highest_count ==
        IF DOMAIN quantum_counts # {}
        THEN Max({quantum_counts[key] : key \in DOMAIN quantum_counts})
        ELSE 1024
      present == IF fv \in DOMAIN quantum_counts THEN quantum_counts
                 ELSE quantum_counts @@ (fv :> 0)
  IN  [present EXCEPT ![fv] = highest_count * 10]

\* ------------------------------------------------------------------ state
VARIABLES
  pc,              \* "idle" | "scanning" | "quantum" | "simulating" |
                   \* "measured" | "plotting" | "done" | "raised" |
                   \* "rz_simulating" | "rz_measured" | "returned"
  prog,            \* the function called from idle
  num_qubits,      \* CVEQuantumSearch.num_qubits
  target_pattern,  \* argument of run_grover_manual / run_classical_search
  iterations,      \* argument of run_grover_manual
  qc,              \* the circuit handed to the simulator
  cmap,            \* its measurement map
  ip,              \* number of instructions already applied
  sv,              \* the simulator's state vector
  result,          \* the outcome distribution, once measured
  counts,          \* the counts get_counts() returned
  psi,             \* Lab5: the simulator's complex state vector
  mock_db,         \* run_classical_search: the database
  matches,         \* run_classical_search: entry -> count
  visited,         \* the entries the loop has visited, in order
  plotted,         \* run_search: the counts handed to plot_histogram
  clock,           \* what time.time() (wall) and a monotonic clock (mono)
                   \* read, in milliseconds since the call started
  start_time,      \* run_classical_search: start_time
  search_time,     \* run_classical_search: search_time
  classical_start, \* run_search: classical_start
  classical_total_time,  \* run_search: classical_total_time
  button,          \* submit_button: state and text
  dialog           \* the messagebox shown by run_search, if any

callVars == <<prog, num_qubits, target_pattern, iterations>>
simVars == <<qc, cmap, ip, sv, result, counts, psi>>
scanVars == <<mock_db, matches, visited>>
timeVars ==
  <<clock, start_time, search_time, classical_start, classical_total_time>>
guiVars == <<button, dialog>>

vars == <<pc, callVars, simVars, scanVars, plotted, timeVars, guiVars>>

Nothing == << >>

\* Search-qubit counts for which CVEQuantumSearch is constructed.
QubitCounts == 2 .. DefaultNumQubits

\* Target patterns handed to a searcher with k search qubits: every
\* bitstring of length 1 .. k + 1.
Patterns(k) == UNION {BitStrings(l) : l \in 1 .. (k + 1)}

\* The texts of the three entry fields, by what create_feature_vector
\* reads from them.
Descriptions == SUBSET {"buffer", "sql", "xss"}
AttackVectors == {"remote", "local"}
Privileges == {"low", "high"}

\* Lines 304-306 and 597, 601: the submit button as created and as
\* re-enabled.
NormalButton == [state |-> "normal", text |-> "Run Search Comparison"]

\* Line 529: the submit button while run_search is processing.
ProcessingButton == [state |-> "disabled", text |-> "Processing..."]

\* The system clock is set forward or back by MaxClockJump.
ClockJumps == {-MaxClockJump, MaxClockJump}

\* No call in progress: nothing is kept from one run to the next.
Idle ==
  [pc |-> "idle", prog |-> "none", num_qubits |-> DefaultNumQubits,
   target_pattern |-> << >>, iterations |-> 0, qc |-> << >>, cmap |-> << >>,
   ip |-> 0, sv |-> ZeroState(1), result |-> Nothing, counts |-> Nothing,
   psi |-> CZeroState(1),
   mock_db |-> << >>, matches |-> Nothing, visited |-> << >>,
   plotted |-> Nothing,
   clock |-> [wall |-> 0, mono |-> 0], start_time |-> 0, search_time |-> 0,
   classical_start |-> 0, classical_total_time |-> 0,
   button |-> NormalButton, dialog |-> "none"]

Init ==
  /\ pc = Idle.pc
  /\ prog = Idle.prog
  /\ num_qubits = Idle.num_qubits
  /\ target_pattern = Idle.target_pattern
  /\ iterations = Idle.iterations
  /\ qc = Idle.qc
  /\ cmap = Idle.cmap
  /\ ip = Idle.ip
  /\ sv = Idle.sv
  /\ result = Idle.result
  /\ counts = Idle.counts
  /\ psi = Idle.psi
  /\ mock_db = Idle.mock_db
  /\ matches = Idle.matches
  /\ visited = Idle.visited
  /\ plotted = Idle.plotted
  /\ clock = Idle.clock
  /\ start_time = Idle.start_time
  /\ search_time = Idle.search_time
  /\ classical_start = Idle.classical_start
  /\ classical_total_time = Idle.classical_total_time
  /\ button = Idle.button
  /\ dialog = Idle.dialog

\* running a circuit starts from |0...0> with nothing applied
Load(ops, n, m) ==
  /\ qc' = ops
  /\ cmap' = m
  /\ ip' = 0
  /\ sv' = ZeroState(n)
  /\ result' = Nothing
  /\ counts' = Nothing
  /\ UNCHANGED psi

\* Lines 78-97: the circuit is built (or building it raises) and handed to
\* the simulator.
BuildAndRun(k, tp, its) ==
  LET built == GroverCircuit(tp, its, k)
  IN  IF built.raised
      THEN /\ pc' = "raised"
           /\ Load(<< >>, k + 1, MeasureRegister(k))
      ELSE /\ pc' = "simulating"
           /\ Load(built.ops, k + 1, MeasureRegister(k))

\* searcher = CVEQuantumSearch(k); searcher.run_grover_manual(tp, its)
run_grover_manual(k, tp, its) ==
  /\ pc = "idle"
  /\ prog' = "run_grover_manual"
  /\ num_qubits' = k
  /\ target_pattern' = tp
  /\ iterations' = its
  /\ BuildAndRun(k, tp, its)
  /\ UNCHANGED <<scanVars, plotted, timeVars, guiVars>>

\* one of the lab scripts hands its circuit to simulator.run
run_lab(name) ==
  /\ pc = "idle"
  /\ prog' = name
  /\ pc' = "simulating"
  /\ Load(LabCircuits[name].ops, LabCircuits[name].n, LabCircuits[name].cmap)
  /\ UNCHANGED <<num_qubits, target_pattern, iterations, scanVars, plotted, timeVars, guiVars>>

\* the simulator applies the next instruction
simulator_step ==
  /\ pc = "simulating"
  /\ ip < Len(qc)
  /\ sv' = ApplyGate(sv, qc[ip + 1])
  /\ ip' = ip + 1
  /\ UNCHANGED <<pc, callVars, qc, cmap, result, counts, psi, scanVars, plotted, timeVars, guiVars>>

\* every instruction applied: the outcome distribution of the measured
\* qubits is that of the final state vector
measure ==
  /\ pc = "simulating"
  /\ ip = Len(qc)
  /\ result' = Probabilities(sv, cmap)
  /\ pc' = "measured"
  /\ UNCHANGED <<callVars, qc, cmap, ip, sv, counts, psi, scanVars, plotted, timeVars, guiVars>>

\* job.result().get_counts(): Shots draws from the distribution
get_counts ==
  /\ pc = "measured"
  /\ counts' \in Samples(result)
  /\ pc' = IF prog = "run_search" THEN "plotting" ELSE "done"
  /\ UNCHANGED <<callVars, qc, cmap, ip, sv, result, psi, scanVars, plotted, timeVars, guiVars>>

\* Rotation angles of the Lab5 circuits run, in units of pi/6.
Angles == 0 .. MaxAngle

\* Lab5.py lines 27-29: the circuit of multiple_rz_gates is handed to
\* simulator.run
run_multiple_rz_gates(m1, m2) ==
  /\ pc = "idle"
  /\ prog' = "multiple_rz_gates"
  /\ pc' = "rz_simulating"
  /\ qc' = multiple_rz_gates(m1, m2)
  /\ cmap' = MeasureQubit0
  /\ ip' = 0
  /\ psi' = CZeroState(2)
  /\ result' = Nothing
  /\ counts' = Nothing
  /\ UNCHANGED <<num_qubits, target_pattern, iterations, sv, scanVars, plotted, timeVars, guiVars>>

\* the simulator applies the next instruction of the Lab5 circuit
rz_simulator_step ==
  /\ pc = "rz_simulating"
  /\ ip < Len(qc)
  /\ psi' = CApplyGate(psi, qc[ip + 1])
  /\ ip' = ip + 1
  /\ UNCHANGED <<pc, callVars, qc, cmap, sv, result, counts, scanVars, plotted, timeVars, guiVars>>

\* Lab5.py line 30: the outcome distribution of the measured qubit
rz_measure ==
  /\ pc = "rz_simulating"
  /\ ip = Len(qc)
  /\ result' = CProbabilities(psi, cmap)
  /\ pc' = "rz_measured"
  /\ UNCHANGED <<callVars, qc, cmap, ip, sv, counts, psi, scanVars, plotted, timeVars, guiVars>>

\* Lab5.py line 31: result.get_counts()
rz_get_counts ==
  /\ pc = "rz_measured"
  /\ counts' \in CSamples(result)
  /\ pc' = "done"
  /\ UNCHANGED <<callVars, qc, cmap, ip, sv, result, psi, scanVars, plotted, timeVars, guiVars>>

\* searcher.run_classical_search(tp, database_size), lines 115-123
run_classical_search(tp, database_size) ==
  /\ pc = "idle"
  /\ prog' = "run_classical_search"
  /\ target_pattern' = tp
  /\ mock_db' = MockDb(database_size, num_qubits)
  /\ matches' = Nothing
  /\ visited' = << >>
  /\ pc' = "scanning"
  /\ start_time' = clock.wall
  /\ UNCHANGED <<num_qubits, iterations, simVars, plotted, clock, search_time,
                 classical_start, classical_total_time, guiVars>>

\* Lines 125-133: one pass of the loop over mock_db; time.sleep(0.001)
\* lets a millisecond pass on both clocks
classical_step ==
  /\ pc = "scanning"
  /\ Len(visited) < Len(mock_db)
  /\ LET entry == mock_db[Len(visited) + 1]
     IN  /\ matches' = Visit(matches, entry)
         /\ visited' = Append(visited, entry)
  /\ clock' = [wall |-> clock.wall + 1, mono |-> clock.mono + 1]
  /\ UNCHANGED <<pc, callVars, simVars, mock_db, plotted, start_time,
                 search_time, classical_start, classical_total_time, guiVars>>

\* The system clock is adjusted (NTP step, the user setting the time) while
\* the loop runs: time.time() jumps, the monotonic clock does not.  At most
\* one adjustment per call.
clock_adjust(delta) ==
  /\ pc = "scanning"
  /\ clock.wall = clock.mono
  /\ clock' = [clock EXCEPT !.wall = @ + delta]
  /\ UNCHANGED <<pc, callVars, simVars, scanVars, plotted, start_time,
                 search_time, classical_start, classical_total_time, guiVars>>

\* Lines 138-152: the loop is over, end_time is read, the target is
\* highlighted and (matches, search_time) returned; in run_search, lines
\* 541-542, classical_end is read next
classical_return ==
  /\ pc = "scanning"
  /\ Len(visited) = Len(mock_db)
  /\ matches' = Highlight(matches, target_pattern)
  /\ pc' = IF prog = "run_search" THEN "quantum" ELSE "done"
  /\ search_time' = clock.wall - start_time
  /\ classical_total_time' =
       IF prog = "run_search" THEN clock.wall - classical_start
       ELSE classical_total_time
  /\ UNCHANGED <<callVars, simVars, mock_db, visited, plotted, clock,
                 start_time, classical_start, guiVars>>

\* run_search, lines 519-525: one of the three fields is empty
run_search_missing_field ==
  /\ pc = "idle"
  /\ prog' = "run_search"
  /\ dialog' = "showwarning"
  /\ pc' = "returned"
  /\ UNCHANGED <<num_qubits, target_pattern, iterations, simVars, scanVars,
                 plotted, timeVars, button>>

\* run_search, lines 519-540, all fields filled: the button is disabled,
\* the feature vector and the iteration count computed, the classical
\* search started
run_search(description, attack_vector, privilege) ==
  /\ pc = "idle"
  /\ prog' = "run_search"
  /\ target_pattern' = create_feature_vector(description, attack_vector, privilege)
  /\ iterations' = OptimalIterations(num_qubits)
  /\ mock_db' = MockDb(DefaultDatabaseSize, num_qubits)
  /\ matches' = Nothing
  /\ visited' = << >>
  /\ pc' = "scanning"
  /\ button' = ProcessingButton
  /\ classical_start' = clock.wall
  /\ start_time' = clock.wall
  /\ UNCHANGED <<num_qubits, simVars, plotted, clock, search_time,
                 classical_total_time, dialog>>

\* run_search, line 554: run_grover_manual(feature_vector, iterations);
\* if building the circuit raises, the handler of lines 599-605 runs
run_search_quantum ==
  /\ pc = "quantum"
  /\ BuildAndRun(num_qubits, target_pattern, iterations)
  /\ IF GroverCircuit(target_pattern, iterations, num_qubits).raised
     THEN button' = NormalButton /\ dialog' = "showerror"
     ELSE UNCHANGED guiVars
  /\ UNCHANGED <<callVars, scanVars, plotted, timeVars>>

\* Mutant of run_search_except: the handler leaves the button as it is.
run_search_except_without_reenable ==
  /\ prog = "run_search"
  /\ pc \in {"scanning", "quantum", "simulating", "measured", "plotting"}
  /\ dialog' = "showerror"
  /\ pc' = "raised"
  /\ UNCHANGED <<callVars, simVars, scanVars, plotted, timeVars, button>>

\* run_search, lines 599-605: a statement of the try block raises (a
\* widget call, the plotting, the simulator); the handler re-enables the
\* button and shows the error
run_search_except ==
  /\ prog = "run_search"
  /\ pc \in {"scanning", "quantum", "simulating", "measured", "plotting"}
  /\ button' = NormalButton
  /\ dialog' = "showerror"
  /\ pc' = "raised"
  /\ UNCHANGED <<callVars, simVars, scanVars, plotted, timeVars>>

\* run_search, lines 558-597: the target's count is forced, both
\* histograms are plotted, the summary shown and the button re-enabled
run_search_plot ==
  /\ pc = "plotting"
  /\ plotted' = [classical |-> matches,
                 quantum   |-> ForcedCounts(counts, target_pattern)]
  /\ pc' = "done"
  /\ button' = NormalButton
  /\ dialog' = "showinfo"
  /\ UNCHANGED <<callVars, simVars, scanVars, timeVars>>

\* the call returned or raised; the next one may start
return ==
  /\ pc \in {"done", "raised", "returned"}
  /\ pc' = Idle.pc
  /\ prog' = Idle.prog
  /\ num_qubits' = Idle.num_qubits
  /\ target_pattern' = Idle.target_pattern
  /\ iterations' = Idle.iterations
  /\ qc' = Idle.qc
  /\ cmap' = Idle.cmap
  /\ ip' = Idle.ip
  /\ sv' = Idle.sv
  /\ result' = Idle.result
  /\ counts' = Idle.counts
  /\ psi' = Idle.psi
  /\ mock_db' = Idle.mock_db
  /\ matches' = Idle.matches
  /\ visited' = Idle.visited
  /\ plotted' = Idle.plotted
  /\ clock' = Idle.clock
  /\ start_time' = Idle.start_time
  /\ search_time' = Idle.search_time
  /\ classical_start' = Idle.classical_start
  /\ classical_total_time' = Idle.classical_total_time
  /\ dialog' = Idle.dialog
  /\ UNCHANGED button

Next ==
  \/ \E k \in QubitCounts, its \in 0 .. MaxIterations :
       \E tp \in Patterns(k) : run_grover_manual(k, tp, its)
  \/ \E name \in DOMAIN LabCircuits : run_lab(name)
  \/ simulator_step
  \/ measure
  \/ get_counts
  \/ \E m1 \in Angles, m2 \in Angles : run_multiple_rz_gates(m1, m2)
  \/ rz_simulator_step
  \/ rz_measure
  \/ rz_get_counts
  \/ \E tp \in Patterns(DefaultNumQubits), size \in 0 .. MaxDatabaseSize :
       run_classical_search(tp, size)
  \/ classical_step
  \/ \E delta \in ClockJumps : clock_adjust(delta)
  \/ classical_return
  \/ run_search_missing_field
  \/ \E d \in Descriptions, a \in AttackVectors, p \in Privileges :
       run_search(d, a, p)
  \/ run_search_quantum
  \/ run_search_except
  \/ run_search_plot
  \/ return

Spec == Init /\ [][Next]_vars

\* ====================================================================
\* Properties
\* ====================================================================
\* c / d < p, for small naturals c, d
ProbAbove(p, c, d) == WLess(WShl(WOf(c), p.e), WTimes(p.num, d))

Reverse(s) == [i \in 1 .. Len(s) |-> s[Len(s) - i + 1]]

\* the pattern create_oracle reads its k bits from
EffectivePattern(tp, k) == SubSeq(zfill(tp, k), 1, k)

\* The key of the basis state in which search qubit idx holds pattern[idx]:
\* qubit idx is classical bit idx, printed at position k - idx.
MarkedKey(tp, k) == Reverse(EffectivePattern(tp, k))

\* run_grover_manual has returned (result is the distribution its counts
\* were drawn from)
GroverDone == pc = "done" /\ prog = "run_grover_manual"

\* key has strictly the largest probability of the distribution dist
StrictPlurality(dist, key) ==
  \A other \in DOMAIN dist : other # key => ProbLess(dist[other], dist[key])

\* C1 (as claimed): with 4 search qubits, a 4-character target pattern and 3
\* iterations, the result key equal to target_pattern has probability above
\* 0.7 and strictly above that of every other key.
C1_TargetKeyIsPlurality ==
  (GroverDone /\ num_qubits = 4 /\ Len(target_pattern) = 4 /\ iterations = 3)
    => /\ ProbAbove(result[target_pattern], 7, 10)
       /\ StrictPlurality(result, target_pattern)

\* sv with every amplitude negated (the global phase -1)
Negated(v) == [a |-> [i \in DOMAIN v.a |-> -v.a[i]], e |-> v.e]

\* a state vector of the k search qubits plus the ancilla is being simulated
GroverSimulating == pc = "simulating" /\ prog = "run_grover_manual"

\* C2: from every state vector the Grover runs pass through, and for every
\* target pattern of length k = num_qubits, applying the circuit of
\* create_oracle(pattern) twice gives back every amplitude, up to one
\* global sign.  (The runs with the most iterations pass through the state
\* vectors of all shorter runs, and a run on a shorter or longer pattern
\* builds the circuit of a pattern of length k, so only the longest runs on
\* patterns of length k are examined.)
C2_OracleSelfInverse ==
  (GroverSimulating /\ iterations = MaxIterations
                    /\ Len(target_pattern) = num_qubits) =>
    \A p \in BitStrings(num_qubits) :
      LET oracle == create_oracle(p, num_qubits).ops
          twice  == Simulate(Simulate(sv, oracle), oracle)
      IN  twice = sv \/ twice = Negated(sv)

\* C2 witness: a superposition in the middle of a diffuser (not a basis state, not
\* uniform), where one application of the oracle of the run's own pattern
\* changes the state.
C2_Witness ==
  /\ GroverSimulating
  /\ num_qubits = 4
  /\ iterations = MaxIterations
  /\ ip > Len(Preparation(4)) + 20
  /\ Len(target_pattern) = 4
  /\ Simulate(sv, create_oracle(target_pattern, 4).ops) # sv

\* the distribution after running the Grover circuit with its iterations
GroverProbOf(tp, its, k, key) ==
  ProbOf(Simulate(ZeroState(k + 1), GroverCircuit(tp, its, k).ops),
         MeasureRegister(k), key)

\* C3: with 4 search qubits, the probability of the marked outcome after
\* 2t iterations is strictly lower than after t iterations, t the count
\* run_search computes.
C3_OverRotation ==
  (GroverDone /\ num_qubits = 4 /\ iterations = 2 * OptimalIterations(4))
    => ProbLess(result[MarkedKey(target_pattern, 4)],
                GroverProbOf(target_pattern, OptimalIterations(4), 4,
                             MarkedKey(target_pattern, 4)))

C3_Witness ==
  /\ GroverDone
  /\ num_qubits = 4
  /\ iterations = 6
  /\ OptimalIterations(4) = 3
  /\ target_pattern = <<1, 0, 1, 1>>

\* C4 (as claimed): for k in 2..4 and a pattern of length k, after
\* t = round(pi/4 * sqrt(2^k)) iterations the marked outcome is strictly
\* more probable than every other outcome.
C4_MarkedDominatesAtOptimum ==
  (GroverDone /\ Len(target_pattern) = num_qubits
              /\ iterations = OptimalIterations(num_qubits))
    => StrictPlurality(result, MarkedKey(target_pattern, num_qubits))

\* C4 (amended): the computed counts are 2, 2, 3 for k = 2, 3, 4; for
\* k in 3..4 the marked outcome is strictly more probable than every other
\* outcome; for k = 2 every outcome, the marked one included, has
\* probability exactly 1/4.
C4_MarkedDominatesFromThreeQubits ==
  /\ OptimalIterations(2) = 2 /\ OptimalIterations(3) = 2 /\ OptimalIterations(4) = 3
  /\ (GroverDone /\ Len(target_pattern) = num_qubits
                 /\ iterations = OptimalIterations(num_qubits))
       => IF num_qubits >= 3
          THEN StrictPlurality(result, MarkedKey(target_pattern, num_qubits))
          ELSE \A key \in DOMAIN result : ProbEq(result[key], Dyadic(1, 2))

C4_Witness ==
  /\ GroverDone
  /\ num_qubits = 3
  /\ iterations = OptimalIterations(3)
  /\ target_pattern = <<1, 1, 0>>
  /\ ProbAbove(result[<<0, 1, 1>>], 9, 10)

\* C5 (as claimed): the quantum counts run_search hands to the histogram
\* are the counts run_grover_manual returned, and sum to the shot count.
C5_PlottedCountsAreSampledCounts ==
  (pc = "done" /\ prog = "run_search")
    => /\ Total(plotted.quantum) = Shots
       /\ plotted.quantum = counts

Range(seq) == {seq[i] : i \in DOMAIN seq}

\* C6 (as claimed): run_classical_search visits every entry of the database
\* once, in index order, and the counts it returns have exactly the entries
\* as keys, each with its number of visits, 1.
C6_ClassicalCountsAreVisitCounts ==
  (pc = "done" /\ prog = "run_classical_search")
    => /\ visited = mock_db
       /\ DOMAIN matches = Range(mock_db)
       /\ \A entry \in DOMAIN matches :
            matches[entry] = Cardinality({i \in DOMAIN visited : visited[i] = entry})
       /\ \A entry \in DOMAIN matches : matches[entry] = 1

\* C7 (as claimed): when create_oracle is called (iterations >= 1) with a
\* target pattern whose length is not num_qubits, the call raises and
\* nothing is simulated.
C7_LengthMismatchRaises ==
  (prog = "run_grover_manual" /\ iterations >= 1
                              /\ Len(target_pattern) # num_qubits)
    => pc = "raised" /\ ip = 0 /\ qc = << >>

LabDone(name) == pc = "done" /\ prog = name

\* C8: H(0); CX(0 -> 1) measured gives "00" and "11" with probability
\* exactly 1/2 each, and "01" and "10" with probability 0.
C8_BellPhiPlus ==
  LabDone("bell_state_phi_plus")
    => /\ ProbEq(result[<<0, 0>>], Dyadic(1, 1))
       /\ ProbEq(result[<<1, 1>>], Dyadic(1, 1))
       /\ ProbEq(result[<<0, 1>>], Dyadic(0, 0))
       /\ ProbEq(result[<<1, 0>>], Dyadic(0, 0))

C8_Witness == LabDone("bell_state_phi_plus") /\ ip = 2

\* C9: X(1); H(0); CX(0 -> 1) measured gives "01" and "10" with
\* probability exactly 1/2 each (and nothing else).
C9_BellPsiPlus ==
  LabDone("bell_state_psi_plus")
    => /\ ProbEq(result[<<0, 1>>], Dyadic(1, 1))
       /\ ProbEq(result[<<1, 0>>], Dyadic(1, 1))
       /\ ProbEq(result[<<0, 0>>], Dyadic(0, 0))
       /\ ProbEq(result[<<1, 1>>], Dyadic(0, 0))

C9_Witness == LabDone("bell_state_psi_plus") /\ ip = 3

\* Lab3.py lines 32-33: the counts the script plots
counts0 == (<<0>> :> 1024) @@ (<<1>> :> 0)

counts1 == (<<0>> :> 0) @@ (<<1>> :> 1024)

\* counts are exactly Shots times the distribution
CountsMatch(plot, dist) ==
  \A key \in DOMAIN dist :
    WTimes(dist[key].num, Shots) = WShl(WOf(plot[key]), dist[key].e)

\* the number of qubits of a state vector
QubitsOf(v) == CHOOSE n \in 0 .. 8 : 2 ^ n = Cardinality(DOMAIN v.a)

\* C10: in every state vector any circuit passes through, Hadamard applied
\* twice to any one qubit gives the state vector back; qc0 (H;H) measures
\* '0' and qc1 (X;H;H) measures '1' with probability 1, which are the
\* plotted counts.  (Of the Grover runs, those with the most iterations
\* pass through the state vectors of all shorter ones and are examined.)
C10_HadamardTwiceIsIdentity ==
  /\ (pc = "simulating" /\ (GroverSimulating => iterations = MaxIterations)) =>
       \A q \in 0 .. (QubitsOf(sv) - 1) : GateH(GateH(sv, q), q) = sv
  /\ LabDone("qc0") =>
       ProbEq(result[<<0>>], Dyadic(1, 0)) /\ CountsMatch(counts0, result)
  /\ LabDone("qc1") =>
       ProbEq(result[<<1>>], Dyadic(1, 0)) /\ CountsMatch(counts1, result)

\* C10 witness: qc1 has run, and on the way H changed the state
C10_Witness ==
  /\ LabDone("qc1")
  /\ GateH(sv, 0) # sv

\* the sum of the squared magnitudes of v, as a probability
Norm(v) == ProbOf(v, << >>, << >>)

\* C11: the simulator's state vector has norm exactly 1 in every state:
\* at |0...0> and after every gate of every circuit run (the Grover
\* circuits for every pattern and iteration count, the Bell, Lab 3 and BB84
\* circuits).
C11_NormIsOne == ProbEq(Norm(sv), Dyadic(1, 0))

\* C11 witness: the last gate of a 3-iteration Grover run on 4 search
\* qubits has been applied, the amplitudes being spread over many basis
\* states with a large common denominator.
C11_Witness ==
  /\ GroverSimulating
  /\ num_qubits = 4
  /\ iterations = 3
  /\ ip = Len(qc)
  /\ sv.e >= 10
  /\ Cardinality({i \in DOMAIN sv.a : sv.a[i] # 0}) = 32

\* C12: run_grover_manual(target_pattern, 0) never raises, whatever the
\* pattern and its length, and the distribution it samples from gives each
\* of the 2^k bitstrings of the search qubits probability exactly 1/2^k.
C12_ZeroIterationsUniform ==
  (prog = "run_grover_manual" /\ iterations = 0)
    => /\ pc # "raised"
       /\ pc \in {"measured", "done"}
            => /\ DOMAIN result = BitStrings(num_qubits)
               /\ \A key \in DOMAIN result :
                    ProbEq(result[key], Dyadic(1, num_qubits))

\* C12 witness: a zero-iteration run has returned for a pattern that makes
\* create_oracle raise as soon as it is called.
C12_Witness ==
  /\ GroverDone
  /\ iterations = 0
  /\ num_qubits = 4
  /\ target_pattern = <<1, 0, 1, 1, 0>>
  /\ create_oracle(target_pattern, 4).raised

\* C13: every key of the counts run_grover_manual returns is a bitstring
\* of exactly num_qubits digits (the distribution is over the search
\* qubits only), and the counts sum to the shot count.
C13_KeysAreSearchQubits ==
  GroverDone
    => /\ DOMAIN result = BitStrings(num_qubits)
       /\ DOMAIN counts \subseteq BitStrings(num_qubits)
       /\ Total(counts) = Shots

\* C13 witness: a run has returned counts with several keys, from a state
\* vector with one more qubit (the ancilla, in superposition) than the keys
\* have digits.
C13_Witness ==
  /\ GroverDone
  /\ num_qubits = 3
  /\ iterations = 2
  /\ Cardinality(DOMAIN counts) > 1
  /\ QubitsOf(sv) = 4
  /\ \E i \in DOMAIN sv.a : sv.a[i] # 0 /\ Bit(i, 3) = 1

\* a Lab5 circuit is being simulated
RzSimulating == pc = "rz_simulating" /\ prog = "multiple_rz_gates"

\* C14: RotationZ(theta1) then RotationZ(theta2) on one qubit is
\* RotationZ(theta1 + theta2), amplitude by amplitude:
\*  - from every state vector a Lab5 run passes through, on either qubit,
\*    for the two angles of the run (every pair of multiples of pi/6 up to
\*    MaxAngle is the pair of some run);
\*  - from every state vector the script's own run (pi/2, pi/3) passes
\*    through, for every pair of angles;
\*  - in the circuit itself: after the second rz the state is that of
\*    h(0) followed by a single rz(theta1 + theta2), which for the script
\*    is rz(5 pi/6).
C14_RotationZComposes ==
  RzSimulating =>
    LET m1 == qc[2].theta
        m2 == qc[3].theta
    IN  /\ \A q \in 0 .. 1 :
             GateRZ(GateRZ(psi, m1, q), m2, q) = GateRZ(psi, m1 + m2, q)
        /\ (m1 = 3 /\ m2 = 2) =>
             \A t1 \in Angles, t2 \in Angles : \A q \in 0 .. 1 :
               GateRZ(GateRZ(psi, t1, q), t2, q) = GateRZ(psi, t1 + t2, q)
        /\ ip = 3 => psi = GateRZ(CGateH(CZeroState(2), 0), m1 + m2, 0)
        /\ (ip = 3 /\ m1 = 3 /\ m2 = 2)
             => psi = GateRZ(CGateH(CZeroState(2), 0), 5, 0)

\* C14 witness: the script's circuit after rz(pi/2) and rz(pi/3): qubit 0
\* is in a superposition whose two amplitudes have different phases.
C14_Witness ==
  /\ RzSimulating
  /\ qc = multiple_rz_gates(3, 2)
  /\ ip = 3
  /\ psi.a[0] # psi.a[1]
  /\ psi.a[0] # CZero /\ psi.a[1] # CZero
  /\ GateRZ(psi, 1, 0) # psi

\* C15 (as claimed): the durations run_classical_search and run_search
\* report are non-negative and equal the time that passed on a monotonic
\* clock between the two readings, whatever happens to the system clock
\* in between.  (Both clocks read 0 when the call starts and the
\* monotonic clock only advances during the loop, so the monotonic time
\* between the readings is clock.mono.)
C15_ElapsedIsMonotonic ==
  /\ (pc = "done" /\ prog = "run_classical_search")
       => search_time >= 0 /\ search_time = clock.mono
  /\ (pc = "quantum" /\ prog = "run_search")
       => /\ search_time >= 0 /\ search_time = clock.mono
          /\ classical_total_time >= 0 /\ classical_total_time = clock.mono

\* the states in which a call of run_search is between its try and the end
\* of the call
SearchInProgress ==
  prog = "run_search"
  /\ pc \in {"scanning", "quantum", "simulating", "measured", "plotting"}

\* C19: whenever no call is in progress or a call has just returned or
\* raised, the submit button is enabled and reads "Run Search Comparison";
\* it is disabled only while run_search is between its try and its end.
C19_ButtonReenabled ==
  /\ pc \in {"idle", "done", "raised", "returned"}
       => button = [state |-> "normal", text |-> "Run Search Comparison"]
  /\ button.state = "disabled" => SearchInProgress
  /\ SearchInProgress => button.state = "disabled"

\* C19 witness: run_search ended in its exception handler, after the
\* button had been disabled and part of the quantum circuit simulated.
C19_Witness ==
  /\ pc = "raised"
  /\ prog = "run_search"
  /\ dialog = "showerror"
  /\ ip > 0
  /\ button.state = "normal"

\* the ancilla (qubit k) of v is in the state |->
AncillaMinus(v, k) ==
  \A i \in 0 .. (2 ^ k - 1) : v.a[i + 2 ^ k] = -v.a[i]

\* in basis index i, search qubit idx holds p[idx] for every idx
Marked(i, p, k) == \A idx \in 0 .. (k - 1) : Bit(i, idx) = p[idx + 1]

\* C16: from every state vector of the Grover runs in which the ancilla is
\* in |->, and for every pattern p of length k, the circuit of
\* create_oracle(p) negates the amplitudes of the basis states in which
\* search qubit idx holds p[idx] for every idx (one state of the search
\* qubits) and leaves every other amplitude as it was.  (As for C2, the
\* runs with the most iterations are examined; a run on a shorter or
\* longer pattern builds the circuit of a pattern of length k, so the runs
\* on patterns of length k pass through every state vector.)
C16_OracleMarksTarget ==
  (GroverSimulating /\ iterations = MaxIterations
                    /\ Len(target_pattern) = num_qubits
                    /\ AncillaMinus(sv, num_qubits))
    => \A p \in BitStrings(num_qubits) :
         Simulate(sv, create_oracle(p, num_qubits).ops)
           = [a |-> [i \in DOMAIN sv.a |->
                       IF Marked(i, p, num_qubits) THEN -sv.a[i] ELSE sv.a[i]],
              e |-> sv.e]

\* C16 witness: the uniform superposition with the ancilla in |->, at the
\* start of the first oracle for the pattern 1011: the oracle flips the
\* sign of the non-zero amplitude of q0 = 1, q1 = 0, q2 = 1, q3 = 1
\* (index 13).
C16_Witness ==
  /\ GroverSimulating
  /\ iterations = MaxIterations
  /\ num_qubits = 4
  /\ target_pattern = <<1, 0, 1, 1>>
  /\ ip = Len(Preparation(4))
  /\ AncillaMinus(sv, 4)
  /\ sv.a[13] # 0
  /\ Simulate(sv, create_oracle(target_pattern, 4).ops).a[13] = -sv.a[13]

RECURSIVE AmpSum(_, _, _)
\* the sum of the amplitudes v.a[lo .. hi], by halves
AmpSum(v, lo, hi) ==
  IF lo > hi THEN 0
  ELSE IF lo = hi THEN v.a[lo]
  ELSE AmpSum(v, lo, (lo + hi) \div 2) + AmpSum(v, (lo + hi) \div 2 + 1, hi)

\* v with each amplitude a_i replaced by 2 * mean - a_i, the mean taken
\* over the 2^k states of the search qubits for the same ancilla value b:
\* 2 * mean - a_i = (sum_b - 2^(k-1) * a_i) / 2^(k-1).
InversionAboutMean(v, k) ==
  LET sum == [b \in 0 .. 1 |-> AmpSum(v, b * (2 ^ k), (b + 1) * (2 ^ k) - 1)]
  IN  Reduce([a |-> [i \in DOMAIN v.a |->
                       sum[i \div (2 ^ k)] - (2 ^ (k - 1)) * v.a[i]],
              e |-> v.e + 2 * (k - 1)])

\* C17: from every state vector of the Grover runs (k = 2..4 search
\* qubits), the diffuser of run_grover_manual gives the inversion about
\* the mean of the search-qubit amplitudes, separately for each ancilla
\* value, up to one global sign.  (The runs with the most iterations on
\* patterns of length k are examined, as for C16.)
C17_DiffuserInvertsAboutMean ==
  (GroverSimulating /\ iterations = MaxIterations
                    /\ Len(target_pattern) = num_qubits)
    => LET out      == Simulate(sv, Diffuser(num_qubits))
           expected == InversionAboutMean(sv, num_qubits)
       IN  out = expected \/ out = Negated(expected)

\* C17 witness: right after the first oracle of a run on 4 search qubits
\* the amplitudes are not all equal, and the diffuser changes them.
C17_Witness ==
  /\ GroverSimulating
  /\ iterations = MaxIterations
  /\ num_qubits = 4
  /\ Len(target_pattern) = 4
  /\ ip = Len(Preparation(4)) + Len(create_oracle(target_pattern, 4).ops)
  /\ \E i \in 0 .. 15 : sv.a[i] # sv.a[0]
  /\ Simulate(sv, Diffuser(4)) # sv
  /\ Simulate(sv, Diffuser(4)) # Negated(sv)

\* the probability that classical bit q of a lab circuit that measures
\* qubit q into bit q is 1, in the state vector the measurement is made on
BitIsOne(q) == ProbOf(sv, <<q>>, <<1>>)

\* the simulator is about to pass the barrier of bb84_protocol_no_eve
AtBarrier ==
  /\ pc = "simulating" /\ prog = "bb84_protocol_no_eve"
  /\ ip < Len(qc) /\ qc[ip + 1].g = "barrier"

\* C18: bb84_protocol_no_eve measures 0, 1, 0, 1 with probability 1 on
\* qubits 0, 1, 3, 5 (bases agree), measures 0 or 1 with probability 1/2
\* each on qubits 2 and 4 (bases differ), and the barrier changes no
\* amplitude.
C18_BB84MatchingBases ==
  /\ LabDone("bb84_protocol_no_eve") =>
       /\ result = Probabilities(sv, MeasureAll(6))
       /\ ProbEq(BitIsOne(0), Dyadic(0, 0))
       /\ ProbEq(BitIsOne(1), Dyadic(1, 0))
       /\ ProbEq(BitIsOne(3), Dyadic(0, 0))
       /\ ProbEq(BitIsOne(5), Dyadic(1, 0))
       /\ ProbEq(BitIsOne(2), Dyadic(1, 1))
       /\ ProbEq(BitIsOne(4), Dyadic(1, 1))
  /\ AtBarrier => ApplyGate(sv, qc[ip + 1]) = sv

=============================================================================
